---- MODULE Spec2Model ----
(***************************************************************************)
(* Model of the MLX90614 Klipper temperature sensor driver                 *)
(* (src/mlx90614/mlx90614.py).                                             *)
(*                                                                         *)
(* Units.  Times are tenths of a second (0.8 s = 8, 0.5 s = 5).            *)
(* Temperatures are thousandths of a degree Celsius (273.15 = 273150,      *)
(* 0.02 * x = 20 * x), so rounding to two decimals and formatting with     *)
(* one decimal are real conversions.  Arithmetic is exact; floating-point  *)
(* representation error is not modelled.                                   *)
(*                                                                         *)
(* Python values that the code passes around without looking at their type *)
(* are tagged records (PyNumber, PyBytearray), so that an operator applied *)
(* to a value of the wrong type raises as it does in Python.               *)
(***************************************************************************)
EXTENDS Integers, Sequences, FiniteSets, TLC

VARIABLES
    config,         \* the MLX90614_report_time option of the config section
    constructed,    \* MLX90614.__init__ returned without a config error
    name,           \* self.name
    report_time,    \* self.report_time
    temp,           \* self.temp
    min_temp,       \* self.min_temp
    max_temp,       \* self.max_temp
    callback,       \* self._callback ("unset" while the attribute is missing)
    waketime,       \* wake time of self.sample_timer held by the reactor
    connected,      \* the host has fired "klippy:connect"
    escaped,        \* an exception left a handler of this driver (host down)
    now,            \* reactor.monotonic()
    trace,          \* calls the driver made on its collaborators, in order
    shutdown_msgs,  \* messages passed to printer.invoke_shutdown, in order
    last_call,      \* the last operation called: its name, argument, result
    caller_list,    \* contents of the list object a caller of write_register holds
    caller_payload, \* the payload bytes the caller put into that list
    bus_writes      \* i2c.i2c_write calls, in order: bytes sent, payload meant

vars == << config, constructed, name, report_time, temp, min_temp, max_temp,
           callback, waketime, connected, escaped, now, trace, shutdown_msgs,
           last_call, caller_list, caller_payload, bus_writes >>

----------------------------------------------------------------------------
(* Program constants *)

MLX90614_CHIP_ADDR == 90
MLX90614_I2C_SPEED == 100000

MLX90614_REGS ==
    [ MLX90614_RAWIR1  |-> 4,
      MLX90614_RAWIR2  |-> 5,
      MLX90614_TA      |-> 6,
      MLX90614_TOBJ1   |-> 7,
      MLX90614_TOBJ2   |-> 8,
      MLX90614_TOMAX   |-> 32,
      MLX90614_TOMIN   |-> 33,
      MLX90614_PWMCTRL |-> 34,
      MLX90614_TARANGE |-> 35,
      MLX90614_EMISS   |-> 36,
      MLX90614_CONFIG  |-> 37,
      MLX90614_ADDR    |-> 46,
      MLX90614_ID1     |-> 60,
      MLX90614_ID2     |-> 61,
      MLX90614_ID3     |-> 62,
      MLX90614_ID4     |-> 63 ]

MLX90614_REPORT_TIME == 8
MLX90614_MIN_REPORT_TIME == 5

\* reactor.NOW and reactor.NEVER: NEVER is later than every time of the model.
NOW == 0
NEVER == 999999

\* mcu.estimated_print_time is a strictly increasing map of the host clock;
\* the print clock runs PRINT_TIME_OFFSET behind it.
PRINT_TIME_OFFSET == 1

----------------------------------------------------------------------------
(* Bounds of the model *)

MaxTime == 5        \* the clock stops advancing here
MaxDelay == 1       \* longest time a blocking bus read takes
MaxEvents == 20     \* no sampling cycle starts with more events logged
MaxWrites == 2      \* write_register calls followed

\* Configured MLX90614_report_time values tried at construction.
ConfigTimes == {3, 5, 10}

\* Config section names the instance is created from.
SectionNames == { <<"temperature_sensor", "chamber">>, <<"bed_ir">> }

\* Raw 16-bit samples the sensor answers with: -273.15, 20.01, 305.01 and
\* 1037.55 degrees.
RawSamples == {0, 14658, 28908, 65535}

\* Identity byte the sensor answers the probe with.
IdBytes == {171}

\* Envelopes << min_temp, max_temp >> a caller passes to setup_minmax.
Envelopes == { << 0, 300000 >>, << 20010, 20010 >> }

\* Report callbacks a caller registers.
Callbacks == {"cb1"}

\* Times a caller passes to get_status.
QueryTimes == {0, 3}

\* Registers a caller writes, the single values and the payload lists it
\* passes to write_register.
WriteRegs == {"MLX90614_EMISS"}
WriteValues == {7}
WritePayloads == { << 18, 52 >> }

----------------------------------------------------------------------------
(* Python values *)

PyNumber(n)    == [type |-> "number",    num |-> n, items |-> << >>]
PyBytearray(b) == [type |-> "bytearray", num |-> 0, items |-> b]
PyNone         == [type |-> "NoneType",  num |-> 0, items |-> << >>]

\* A reference to the list object the caller holds; its contents are
\* caller_list, which every holder of the reference sees and changes.
PyCallerList   == [type |-> "list",      num |-> 0, items |-> << >>]

\* Little-endian bytes of a 16-bit value, and back.
LeBytes(x) == << x % 256, x \div 256 >>
LeValue(b) == b[1] + 256 * b[2]

\* round(v, 2): nearest hundredth, ties to even.
Round2(v) ==
    LET q == v \div 10
        r == v % 10
    IN  IF r < 5 THEN 10 * q
        ELSE IF r > 5 THEN 10 * (q + 1)
        ELSE IF q % 2 = 0 THEN 10 * q ELSE 10 * (q + 1)

\* "%0.1f" % v: nearest tenth, ties to even.
Fmt1(v) ==
    LET q == v \div 100
        r == v % 100
    IN  IF r < 50 THEN 100 * q
        ELSE IF r > 50 THEN 100 * (q + 1)
        ELSE IF q % 2 = 0 THEN 100 * q ELSE 100 * (q + 1)

\* str.split()[-1]
LastWord(words) == words[Len(words)]

\* One logged call: ev is the call, a, b, c its arguments or result.
Ev(e, a, b, c) == [ev |-> e, a |-> a, b |-> b, c |-> c]

\* An operation called with arg that returned result (0 for None).
Call(op, arg, result) == [op |-> op, arg |-> arg, result |-> result]

----------------------------------------------------------------------------
(* Collaborators, at the interface the driver uses *)

\* Faulty variant of getfloat: minval is not enforced.
getfloat_nofloor(cfg, default, minval) ==
    IF ~cfg.set THEN [error |-> FALSE, value |-> default]
    ELSE [error |-> FALSE, value |-> cfg.val]

\* config.getfloat(option, default, minval=...): the default when the option
\* is not set, a config error when the value is below minval.
getfloat(cfg, default, minval) ==
    IF ~cfg.set THEN [error |-> FALSE, value |-> default]
    ELSE IF cfg.val < minval THEN [error |-> TRUE, value |-> cfg.val]
    ELSE [error |-> FALSE, value |-> cfg.val]

ConfigChoices ==
    {[set |-> FALSE, val |-> 0]} \cup {[set |-> TRUE, val |-> v] : v \in ConfigTimes}

\* Outcome of i2c.i2c_read(regs, read_len): a transport error, or read_len
\* bytes of response.
BusError == [ok |-> FALSE, response |-> << >>]
BusData(b) == [ok |-> TRUE, response |-> b]

SampleResponses == {BusError} \cup {BusData(LeBytes(x)) : x \in RawSamples}
ProbeResponses  == {BusError} \cup {BusData(<< b >>) : b \in IdBytes}

estimated_print_time(eventtime) == eventtime - PRINT_TIME_OFFSET

----------------------------------------------------------------------------
(* Helpers of the driver *)

\* read_register: the register's address is sent and read_len bytes come
\* back as a bytearray; a transport error propagates.
read_register(reg_name, read_len, resp) ==
    IF resp.ok
    THEN [raised |-> FALSE, reg |-> MLX90614_REGS[reg_name],
          value |-> PyBytearray(resp.response)]
    ELSE [raised |-> TRUE, reg |-> MLX90614_REGS[reg_name], value |-> PyNone]

\* degrees_from_sample: (x * 0.02) - 273.15.  Python multiplies a number by
\* a float; a sequence (bytearray, list, str) times a float is a TypeError.
degrees_from_sample(x) ==
    IF x.type = "number"
    THEN [raised |-> FALSE, value |-> 20 * x.num - 273150]
    ELSE [raised |-> TRUE, value |-> 0]

\* Faulty variants of sample_except: the failed cycle asks to run again one report
\* interval later; the failed cycle returns reactor.NOW for reactor.NEVER.
sample_except_retry == [temp |-> 0, ret |-> now + report_time]
sample_except_now == [temp |-> 0, ret |-> NOW]

\* The except clause of _sample_mlx90614: the sentinel temperature and the
\* value returned to the reactor.
sample_except == [temp |-> 0, ret |-> NEVER]

\* The text of the shutdown message: the literal words of the format string
\* and the three formatted numbers.
shutdown_message(t, lo, hi) ==
    [ words |-> << "MLX90614", "temperature", "outside", "range", "of" >>,
      args  |-> << Fmt1(t), Fmt1(lo), Fmt1(hi) >> ]

\* Faulty variant of init_mlx90614: no except clause, what the probe raises leaves
\* _init_mlx90614.
init_mlx90614_propagate(resp) ==
    LET rd == read_register("MLX90614_ID1", 1, resp)
        raised == rd.raised \/ Len(rd.value.items) = 0
    IN  [ escaped |-> raised,
          events  |-> << Ev("read", rd.reg, IF resp.ok THEN 1 ELSE 0, 0) >>
                      \o (IF raised THEN << >>
                          ELSE << Ev("log_info", rd.value.items[1], 0, 0) >>) ]

\* _init_mlx90614: the probe reads one byte of MLX90614_ID1 and logs it; the
\* bare except swallows whatever the read or the indexing raises.
init_mlx90614(resp) ==
    LET rd == read_register("MLX90614_ID1", 1, resp)
        raised == rd.raised \/ Len(rd.value.items) = 0
    IN  [ escaped |-> FALSE,
          events  |-> << Ev("read", rd.reg, IF resp.ok THEN 1 ELSE 0, 0) >>
                      \o (IF raised THEN << >>
                          ELSE << Ev("log_info", rd.value.items[1], 0, 0) >>) ]

\* Faulty variant of get_status_result: the Kelvin offset is subtracted once more.
get_status_result_offset(eventtime) == Round2(temp - 273150)

\* The 'temperature' entry of the dictionary get_status returns: the stored
\* temperature rounded to two decimals, whatever eventtime is.
get_status_result(eventtime) == Round2(temp)

\* write_register up to the bus write: a value that is not a list is wrapped
\* in a new list; the register's address is inserted at the head of the list
\* object, and that list is what i2c_write sends.  aliased tells that the
\* list object changed is the caller's.
write_register_data(reg_name, data) ==
    LET reg == MLX90614_REGS[reg_name]
        aliased == data.type = "list"
        lst == IF aliased THEN caller_list ELSE << data.num >>
    IN  [reg |-> reg, aliased |-> aliased, sent |-> << reg >> \o lst]

----------------------------------------------------------------------------
(* State after MLX90614.__init__ *)

\* Faulty variant of Init: the sample timer is registered already armed with
\* reactor.NOW.
Init_armed ==
    \E cfg \in ConfigChoices, section \in SectionNames :
        LET rt == getfloat(cfg, MLX90614_REPORT_TIME, MLX90614_MIN_REPORT_TIME)
        IN  /\ config = cfg
            /\ constructed = ~rt.error
            /\ name = LastWord(section)
            /\ report_time = rt.value
            /\ temp = 0
            /\ min_temp = 0
            /\ max_temp = 0
            /\ callback = "unset"
            /\ waketime = NOW
            /\ connected = FALSE
            /\ escaped = FALSE
            /\ now = 0
            /\ trace = << >>
            /\ shutdown_msgs = << >>
            /\ last_call = Call("__init__", 0, 0)
            /\ caller_list = << >>
            /\ caller_payload = << >>
            /\ bus_writes = << >>

Init ==
    \E cfg \in ConfigChoices, section \in SectionNames :
        LET rt == getfloat(cfg, MLX90614_REPORT_TIME, MLX90614_MIN_REPORT_TIME)
        IN  /\ config = cfg
            /\ constructed = ~rt.error
            /\ name = LastWord(section)
            /\ report_time = rt.value
            /\ temp = 0
            /\ min_temp = 0
            /\ max_temp = 0
            /\ callback = "unset"
            /\ waketime = NEVER
            /\ connected = FALSE
            /\ escaped = FALSE
            /\ now = 0
            /\ trace = << >>
            /\ shutdown_msgs = << >>
            /\ last_call = Call("__init__", 0, 0)
            /\ caller_list = << >>
            /\ caller_payload = << >>
            /\ bus_writes = << >>

\* The instance exists and the host process is running.
Alive == constructed /\ ~escaped

----------------------------------------------------------------------------
(* Operations *)

\* handle_connect, called by the host once, on "klippy:connect": the probe,
\* then the sample timer is armed with reactor.NOW.  The probe's read is
\* answered with resp.
handle_connect(resp) ==
    LET init == init_mlx90614(resp)
    IN  /\ Alive
        /\ ~connected
        /\ connected' = TRUE
        /\ trace' = trace \o init.events
        /\ escaped' = init.escaped
        /\ waketime' = IF init.escaped THEN waketime ELSE NOW
        /\ last_call' = Call("handle_connect", 0, 0)
        /\ UNCHANGED << config, caller_list, caller_payload, bus_writes >>
        /\ UNCHANGED << constructed, name, report_time, temp, min_temp,
                        max_temp, callback, now, shutdown_msgs >>

\* Faulty variant of setup_minmax: the stored temperature is reset to the
\* new lower bound.
setup_minmax_resets_temp(lo, hi) ==
    /\ Alive
    /\ min_temp' = lo
    /\ max_temp' = hi
    /\ temp' = lo
    /\ last_call' = Call("setup_minmax", 0, 0)
    /\ UNCHANGED << config, caller_list, caller_payload, bus_writes >>
    /\ UNCHANGED << constructed, name, report_time, callback, waketime,
                    connected, escaped, now, trace, shutdown_msgs >>

setup_minmax(lo, hi) ==
    /\ Alive
    /\ min_temp' = lo
    /\ max_temp' = hi
    /\ last_call' = Call("setup_minmax", 0, 0)
    /\ UNCHANGED << config, caller_list, caller_payload, bus_writes >>
    /\ UNCHANGED << constructed, name, report_time, temp, callback, waketime,
                    connected, escaped, now, trace, shutdown_msgs >>

setup_callback(cb) ==
    /\ Alive
    /\ callback' = cb
    /\ last_call' = Call("setup_callback", 0, 0)
    /\ UNCHANGED << config, caller_list, caller_payload, bus_writes >>
    /\ UNCHANGED << constructed, name, report_time, temp, min_temp, max_temp,
                    waketime, connected, escaped, now, trace, shutdown_msgs >>

get_status(eventtime) ==
    /\ Alive
    /\ last_call' = Call("get_status", eventtime, get_status_result(eventtime))
    /\ UNCHANGED << config, caller_list, caller_payload, bus_writes >>
    /\ UNCHANGED << constructed, name, report_time, temp, min_temp, max_temp,
                    callback, waketime, connected, escaped, now, trace,
                    shutdown_msgs >>

\* Faulty variant of sample_mlx90614: the except clause does not return, the
\* cycle goes on to the safety check, the callback and the reschedule.
sample_mlx90614_fallthrough(eventtime, resp, delay) ==
    LET rd == read_register("MLX90614_TOBJ1", 2, resp)
        conv == IF rd.raised THEN [raised |-> TRUE, value |-> 0]
                ELSE degrees_from_sample(rd.value)
        failed == conv.raised
        t == IF failed THEN sample_except.temp ELSE conv.value
        violation == t < min_temp \/ t > max_temp
        measured_time == now + delay
        no_callback == callback = "unset"
        ret == measured_time + report_time
    IN  /\ Alive
        /\ waketime # NEVER
        /\ eventtime = now
        /\ eventtime >= waketime
        /\ measured_time <= MaxTime
        /\ Len(trace) + 6 <= MaxEvents
        /\ temp' = t
        /\ now' = measured_time
        /\ shutdown_msgs' =
              IF violation
              THEN Append(shutdown_msgs, shutdown_message(t, min_temp, max_temp))
              ELSE shutdown_msgs
        /\ trace' = trace
              \o << Ev("wake", eventtime, 0, 0),
                    Ev("read", rd.reg, IF resp.ok THEN 1 ELSE 0,
                       IF resp.ok THEN LeValue(resp.response) ELSE 0) >>
              \o (IF failed THEN << Ev("log_exception", 0, 0, 0) >> ELSE << >>)
              \o (IF violation
                  THEN << Ev("invoke_shutdown", Len(shutdown_msgs) + 1, 0, 0) >>
                  ELSE << >>)
              \o << Ev("monotonic", measured_time, 0, 0) >>
              \o (IF no_callback THEN << >>
                  ELSE << Ev("callback", estimated_print_time(measured_time),
                             t, 0) >>)
              \o (IF no_callback THEN << >> ELSE << Ev("return", ret, 0, 0) >>)
        /\ waketime' = IF no_callback THEN NEVER ELSE ret
        /\ escaped' = no_callback
        /\ last_call' = Call("_sample_mlx90614", eventtime,
                              IF no_callback THEN 0 ELSE ret)
        /\ UNCHANGED << config, caller_list, caller_payload, bus_writes >>
        /\ UNCHANGED << constructed, name, report_time, min_temp, max_temp,
                        callback, connected >>

\* _sample_mlx90614, called by the reactor when the sample timer is due, with
\* eventtime the clock at dispatch.  The bus read is answered with resp and
\* blocks for delay.  The reactor parks the timer at NEVER during the call
\* and stores the returned wake time after it; an exception that leaves the
\* call leaves the timer parked and takes the host down.
sample_mlx90614(eventtime, resp, delay) ==
    LET rd == read_register("MLX90614_TOBJ1", 2, resp)
        conv == IF rd.raised THEN [raised |-> TRUE, value |-> 0]
                ELSE degrees_from_sample(rd.value)
        failed == conv.raised
        t == IF failed THEN sample_except.temp ELSE conv.value
        violation == ~failed /\ (t < min_temp \/ t > max_temp)
        measured_time == now + delay
        no_callback == ~failed /\ callback = "unset"
        ret == IF failed THEN sample_except.ret
               ELSE measured_time + report_time
    IN  /\ Alive
        /\ waketime # NEVER
        /\ eventtime = now
        /\ eventtime >= waketime
        /\ measured_time <= MaxTime
        /\ Len(trace) + 6 <= MaxEvents
        /\ temp' = t
        /\ now' = measured_time
        /\ shutdown_msgs' =
              IF violation
              THEN Append(shutdown_msgs, shutdown_message(t, min_temp, max_temp))
              ELSE shutdown_msgs
        /\ trace' = trace
              \o << Ev("wake", eventtime, 0, 0),
                    Ev("read", rd.reg, IF resp.ok THEN 1 ELSE 0,
                       IF resp.ok THEN LeValue(resp.response) ELSE 0) >>
              \o (IF failed THEN << Ev("log_exception", 0, 0, 0) >> ELSE << >>)
              \o (IF violation
                  THEN << Ev("invoke_shutdown", Len(shutdown_msgs) + 1, 0, 0) >>
                  ELSE << >>)
              \o (IF failed THEN << >>
                  ELSE << Ev("monotonic", measured_time, 0, 0) >>)
              \o (IF failed \/ no_callback THEN << >>
                  ELSE << Ev("callback", estimated_print_time(measured_time),
                             t, 0) >>)
              \o (IF no_callback THEN << >> ELSE << Ev("return", ret, 0, 0) >>)
        /\ waketime' = IF no_callback THEN NEVER ELSE ret
        /\ escaped' = no_callback
        /\ last_call' = Call("_sample_mlx90614", eventtime,
                              IF no_callback THEN 0 ELSE ret)
        /\ UNCHANGED << config, caller_list, caller_payload, bus_writes >>
        /\ UNCHANGED << constructed, name, report_time, min_temp, max_temp,
                        callback, connected >>

get_report_time_delta ==
    /\ Alive
    /\ last_call' = Call("get_report_time_delta", 0, report_time)
    /\ UNCHANGED << config, caller_list, caller_payload, bus_writes >>
    /\ UNCHANGED << constructed, name, report_time, temp, min_temp, max_temp,
                    callback, waketime, connected, escaped, now, trace,
                    shutdown_msgs >>

\* A caller of write_register builds a list holding payload.
caller_new_list(payload) ==
    /\ Alive
    /\ Len(bus_writes) < MaxWrites
    /\ caller_list' = payload
    /\ caller_payload' = payload
    /\ last_call' = Call("list", 0, 0)
    /\ UNCHANGED << config, bus_writes >>
    /\ UNCHANGED << constructed, name, report_time, temp, min_temp, max_temp,
                    callback, waketime, connected, escaped, now, trace,
                    shutdown_msgs >>

\* write_register, called with a single value or with the caller's list.
write_register(reg_name, data) ==
    LET w == write_register_data(reg_name, data)
    IN  /\ Alive
        /\ Len(bus_writes) < MaxWrites
        /\ w.aliased => caller_payload # << >>
        /\ caller_list' = IF w.aliased THEN w.sent ELSE caller_list
        /\ bus_writes' = Append(bus_writes,
               [ reg     |-> w.reg,
                 sent    |-> w.sent,
                 payload |-> IF w.aliased THEN caller_payload
                             ELSE << data.num >> ])
        /\ last_call' = Call("write_register", w.reg, 0)
        /\ UNCHANGED << config, caller_payload >>
        /\ UNCHANGED << constructed, name, report_time, temp, min_temp,
                        max_temp, callback, waketime, connected, escaped, now,
                        trace, shutdown_msgs >>

\* The host clock advances.
Tick ==
    /\ Alive
    /\ now < MaxTime
    /\ now' = now + 1
    /\ last_call' = Call("monotonic", 0, now + 1)
    /\ UNCHANGED << config, caller_list, caller_payload, bus_writes >>
    /\ UNCHANGED << constructed, name, report_time, temp, min_temp, max_temp,
                    callback, waketime, connected, escaped, trace,
                    shutdown_msgs >>

Next ==
    \/ \E resp \in ProbeResponses : handle_connect(resp)
    \/ \E env \in Envelopes : setup_minmax(env[1], env[2])
    \/ \E cb \in Callbacks : setup_callback(cb)
    \/ \E eventtime \in QueryTimes : get_status(eventtime)
    \/ \E resp \in SampleResponses, delay \in 0..MaxDelay :
           sample_mlx90614(now, resp, delay)
    \/ get_report_time_delta
    \/ \E payload \in WritePayloads : caller_new_list(payload)
    \/ \E reg_name \in WriteRegs,
          data \in {PyCallerList} \cup {PyNumber(v) : v \in WriteValues} :
           write_register(reg_name, data)
    \/ Tick

Spec == Init /\ [][Next]_vars

----------------------------------------------------------------------------
(* Vocabulary of the properties *)

\* Positions of the trace holding a call of kind e.
Calls(e) == {i \in DOMAIN trace : trace[i].ev = e}

\* Sampling cycles started so far, and the position where the last started.
Wakes == Calls("wake")
LastWake == CHOOSE i \in Wakes : \A j \in Wakes : j <= i

\* Calls of kind e made by the last sampling cycle.
CycleCalls(e) == {i \in Calls(e) : i >= LastWake}

\* The bus read of the last sampling cycle, whether it succeeded, and the
\* unsigned value of its response.
CycleRead == trace[LastWake + 1]
CycleReadOk == CycleRead.b = 1
CycleRaw == CycleRead.c

\* The state was produced by a sampling cycle.
JustSampled == last_call.op = "_sample_mlx90614"

\* Bus reads of MLX90614_TOBJ1, and whether every one of them succeeded.
SamplingReads ==
    {i \in Calls("read") : trace[i].a = MLX90614_REGS.MLX90614_TOBJ1}
AllSamplingReadsOk == \A i \in SamplingReads : trace[i].b = 1

\* The poller is Halted: a sampling cycle went through its except clause.
HasHalted == Calls("log_exception") # {}

\* The temperature the data sheet assigns to raw sample x: x * 0.02 - 273.15.
ExpectedTemp(x) == 10 * (2 * x - 27315)

\* Every unsigned 16-bit sample is valid input of the conversion.
ValidSample(x) == x \in 0..65535

InEnvelope(t) == min_temp <= t /\ t <= max_temp

----------------------------------------------------------------------------
(* Properties *)

\* C1: when the bus read of a sampling cycle fails, self.temp is 0.0 and the
\* cycle returns reactor.NEVER: the timer is parked, the poller is Halted and
\* no further invocation is scheduled.
C1_ReadFailureHalts ==
    (JustSampled /\ ~CycleReadOk) =>
        /\ temp = 0
        /\ last_call.result = NEVER
        /\ waketime = NEVER
        /\ HasHalted

C1_Witness ==
    /\ JustSampled
    /\ ~CycleReadOk
    /\ CycleRead.a = MLX90614_REGS.MLX90614_TOBJ1
    /\ waketime = NEVER

\* C2: Halted is absorbing.  Once a cycle has halted the poller, no step
\* (clock ticks, setup_minmax, setup_callback, get_status) makes the driver
\* call a collaborator again (no bus read), self.temp keeps its value, the
\* timer stays parked, and get_status returns the sentinel 0.0.
C2_HaltedAbsorbing ==
    [][HasHalted =>
          /\ HasHalted'
          /\ trace' = trace
          /\ temp' = temp
          /\ waketime' = NEVER
          /\ (last_call'.op = "get_status" => last_call'.result = 0)]_vars

C2_Witness ==
    /\ HasHalted
    /\ last_call.op = "get_status"
    /\ last_call.result = 0
    /\ callback # "unset"
    /\ min_temp # 0
    /\ now > trace[LastWake].a + MaxDelay

\* C3: the poller halts only because the bus read of a sampling cycle failed.
\* While every bus read of MLX90614_TOBJ1 has succeeded, the poller has not
\* halted and every sampling cycle has returned a wake time other than NEVER.
C3_HaltsOnlyOnReadFailure ==
    AllSamplingReadsOk =>
        /\ ~HasHalted
        /\ Cardinality(Calls("return")) = Cardinality(Wakes)
        /\ \A i \in Calls("return") : trace[i].a # NEVER

\* C4: a sampling cycle whose bus read succeeds with a response of unsigned
\* value x stores self.temp = x * 0.02 - 273.15.
C4_StoresConvertedSample ==
    (JustSampled /\ CycleReadOk /\ ValidSample(CycleRaw)) =>
        temp = ExpectedTemp(CycleRaw)

C6_Good ==
    /\ Calls("invoke_shutdown") = {}
    /\ Cardinality(Calls("callback")) = Cardinality(Wakes)
    /\ \A i \in Calls("callback") : \A j \in Calls("callback") :
          i < j => trace[i].a < trace[j].a

C6_InRangeRunReports ==
    [][(/\ C6_Good
        /\ callback # "unset"
        /\ last_call'.op = "_sample_mlx90614"
        /\ trace' # trace
        /\ CycleReadOk'
        /\ InEnvelope(ExpectedTemp(CycleRaw')))
       => C6_Good']_vars

\* C7: a sampling cycle that produces a temperature outside the envelope
\* calls invoke_shutdown exactly once, still calls the report callback with
\* that temperature, and still returns measured_time + report_time: the
\* poller does not halt.
C7_ViolationStillReports ==
    (/\ JustSampled
     /\ CycleReadOk
     /\ callback # "unset"
     /\ ~InEnvelope(ExpectedTemp(CycleRaw))) =>
        /\ Cardinality(CycleCalls("invoke_shutdown")) = 1
        /\ \E i \in CycleCalls("callback") : trace[i].b = ExpectedTemp(CycleRaw)
        /\ last_call.result = now + report_time
        /\ waketime # NEVER
        /\ ~HasHalted

\* C8: on a safety violation invoke_shutdown is passed a message that
\* contains the instance name, the measured temperature, min_temp and
\* max_temp.
MessageHasName(m) == \E k \in DOMAIN m.words : m.words[k] = name
MessageHasNumber(m, v) == \E k \in DOMAIN m.args : m.args[k] = Fmt1(v)

C8_ShutdownMessageContents ==
    (JustSampled /\ CycleReadOk /\ ~InEnvelope(ExpectedTemp(CycleRaw))) =>
        \E i \in CycleCalls("invoke_shutdown") :
            LET m == shutdown_msgs[trace[i].a]
            IN  /\ MessageHasName(m)
                /\ MessageHasNumber(m, ExpectedTemp(CycleRaw))
                /\ MessageHasNumber(m, min_temp)
                /\ MessageHasNumber(m, max_temp)

\* C9: a failure of the identity probe never leaves handle_connect and never
\* prevents scheduling.  From the connect event until the first sampling
\* cycle starts, whether the probe read succeeded or failed, no exception
\* has escaped and the sample timer is armed with reactor.NOW.
C9_ProbeNeverBlocksScheduling ==
    (connected /\ Wakes = {}) =>
        /\ ~escaped
        /\ waketime = NOW
        /\ trace # << >>
        /\ trace[1] \in { Ev("read", MLX90614_REGS.MLX90614_ID1, ok, 0) :
                          ok \in {0, 1} }

C9_Witness ==
    /\ connected
    /\ Wakes = {}
    /\ trace = << Ev("read", MLX90614_REGS.MLX90614_ID1, 0, 0) >>
    /\ waketime = NOW
    /\ ~escaped

\* C10: get_status changes no state of the instance (temp, min_temp,
\* max_temp, the timer, the interval, the callback; it calls no
\* collaborator) and returns self.temp rounded to two decimals whatever its
\* eventtime argument is, so successive calls return the same value.
C10_GetStatusReadOnly ==
    [][last_call'.op = "get_status" =>
          /\ UNCHANGED << temp, min_temp, max_temp, waketime, report_time,
                          callback, trace, shutdown_msgs, now >>
          /\ last_call'.result = Round2(temp)
          /\ (last_call.op = "get_status" =>
                  last_call'.result = last_call.result)]_vars

C10_Witness ==
    /\ last_call.op = "get_status"
    /\ last_call.arg # 0
    /\ last_call.result = Round2(temp)
    /\ Wakes # {}

\* C11: report_time >= MLX90614_MIN_REPORT_TIME in every state of an
\* instance.  Construction fails exactly when the configured interval is
\* below the floor; otherwise the interval is the configured value, or
\* MLX90614_REPORT_TIME when the option is not set, it stays so whatever
\* operation runs, and get_report_time_delta returns it.
C11_ReportTimeFloor ==
    /\ constructed <=>
          (~config.set \/ config.val >= MLX90614_MIN_REPORT_TIME)
    /\ constructed =>
          /\ report_time >= MLX90614_MIN_REPORT_TIME
          /\ report_time = IF config.set THEN config.val
                           ELSE MLX90614_REPORT_TIME
    /\ last_call.op = "get_report_time_delta" =>
          last_call.result = report_time

C11_Witness ==
    /\ constructed
    /\ config.set
    /\ config.val = MLX90614_MIN_REPORT_TIME
    /\ report_time = MLX90614_MIN_REPORT_TIME
    /\ last_call.op = "get_report_time_delta"
    /\ Wakes # {}

\* C12: single writer.  self.temp is changed by no step other than a
\* sampling cycle: handle_connect (and the read_register call of its probe),
\* setup_minmax, setup_callback, get_report_time_delta, write_register and
\* get_status leave it as it is.
C12_SingleWriter ==
    [][/\ (temp' # temp => last_call'.op = "_sample_mlx90614")
       /\ (last_call'.op \in { "handle_connect", "setup_minmax",
                               "setup_callback", "get_report_time_delta",
                               "write_register", "get_status" }
              => temp' = temp)]_vars

C12_Witness ==
    /\ last_call.op = "write_register"
    /\ connected
    /\ Wakes # {}
    /\ callback # "unset"
    /\ min_temp # 0
    /\ temp = 0

\* C13: the safety check is strict.  A sampling cycle whose read succeeds
\* calls invoke_shutdown exactly when the temperature of its sample is below
\* min_temp or above max_temp: never for a sample equal to a bound, always
\* for a sample strictly outside.
C13_StrictEnvelopeCheck ==
    (JustSampled /\ CycleReadOk /\ ValidSample(CycleRaw)) =>
        (CycleCalls("invoke_shutdown") # {}
            <=> (\/ ExpectedTemp(CycleRaw) < min_temp
                 \/ ExpectedTemp(CycleRaw) > max_temp))

C15_CycleOrder ==
    (/\ JustSampled
     /\ CycleReadOk
     /\ callback # "unset"
     /\ ~InEnvelope(ExpectedTemp(CycleRaw))) =>
        \E sd \in CycleCalls("invoke_shutdown") :
        \E cb \in CycleCalls("callback") :
        \E rt \in CycleCalls("return") :
            LastWake + 1 < sd /\ sd < cb /\ cb < rt

\* C16: before the connect event the timer is parked, no sampling read of
\* MLX90614_TOBJ1 is issued and no report callback is called; the connect
\* event arms the sample timer with reactor.NOW.
C16_NothingBeforeConnect ==
    /\ [](~connected =>
            /\ waketime = NEVER
            /\ SamplingReads = {}
            /\ Calls("callback") = {})
    /\ [][(~connected /\ connected') =>
            /\ waketime' = NOW
            /\ last_call'.op = "handle_connect"]_vars

C16_Witness ==
    /\ connected
    /\ last_call.op = "handle_connect"
    /\ waketime = NOW
    /\ now > 0
    /\ Wakes = {}
    /\ callback # "unset"

\* C17: a sampling cycle that halts calls neither the report callback nor
\* invoke_shutdown: the sentinel 0.0 of a failure is never reported, also
\* when it lies outside the envelope.
C17_HaltingCycleReportsNothing ==
    (JustSampled /\ CycleCalls("log_exception") # {}) =>
        /\ CycleCalls("callback") = {}
        /\ CycleCalls("invoke_shutdown") = {}
        /\ temp = 0

C17_Witness ==
    /\ JustSampled
    /\ CycleCalls("log_exception") # {}
    /\ ~CycleReadOk
    /\ callback # "unset"
    /\ min_temp > 0

\* C18: the envelope in force at a sampling cycle is what setup_minmax last
\* set, and [0.0, 0.0] before any setup_minmax call: a successful sample taken
\* while the envelope is still [0.0, 0.0] requests shutdown for every
\* temperature other than exactly 0.0.
C18_DefaultEnvelope ==
    (/\ JustSampled
     /\ CycleReadOk
     /\ min_temp = 0
     /\ max_temp = 0
     /\ ExpectedTemp(CycleRaw) # 0) =>
        /\ Cardinality(CycleCalls("invoke_shutdown")) = 1
        /\ \A i \in CycleCalls("invoke_shutdown") :
              MessageHasNumber(shutdown_msgs[trace[i].a],
                               ExpectedTemp(CycleRaw))

\* C19: every write_register call issues one bus write whose bytes are the
\* register's address followed by the caller's payload bytes in order, also
\* when successive calls pass the same list object.
C19_WriteBytes ==
    \A k \in DOMAIN bus_writes :
        bus_writes[k].sent = << bus_writes[k].reg >> \o bus_writes[k].payload

====
